---- MODULE Spec2Model ----
(***************************************************************************)
(* Mastodon comments widget (static/js/mastodon.js and the second copy of  *)
(* the script kept in the repository, src/unnamed/part_000).               *)
(*                                                                         *)
(* A JavaScript string is a sequence of elements.  A character that comes  *)
(* from data (a field of a reply, an attribute of the page) is a           *)
(* one-character string; a piece of a template literal of the script is    *)
(* one multi-character string (a "chunk"), its runs of white space written *)
(* as one space.  Concatenation is \o.                                     *)
(* A value that may be null/undefined is a sequence of length 0 (absent)   *)
(* or 1 (the value).                                                       *)
(***************************************************************************)
EXTENDS Integers, Sequences, FiniteSets, TLC

VARIABLES
    script,       \* which copy of the script the page loads
    hasDiv,       \* document.querySelector('.comments') finds an element
    attrs,        \* the data-* attributes of that element
    commentsDiv,  \* commentsDiv.innerHTML, the list element's contents left out
    list,         \* innerHTML of #mastodon-comments-list (<<>> while it does not exist)
    pc,           \* position of the one run of initMastodon / loadMastodonComments
    call,         \* arguments of loadMastodonComments(host, postId, lang)
    requests,     \* URLs handed to fetch, in order
    response,     \* the Response the fetch promise resolved with
    data,         \* the value the response.json() promise resolved with
    error,        \* the value thrown into the catch block
    log,          \* console.error entries, in order
    listWrites,   \* number of assignments to commentsContainer.innerHTML
    fn,           \* pure-function runs: the function applied
    arg,          \* pure-function runs: its arguments
    ret           \* pure-function runs: <<>> before the call, <<result>> after

vars == <<script, hasDiv, attrs, commentsDiv, list, pc, call, requests, response,
          data, error, log, listWrites, fn, arg, ret>>

widgetVars == <<hasDiv, attrs, commentsDiv, list, pc, call, requests, response,
                data, error, log, listWrites>>

pureVars == <<fn, arg, ret>>

(***************************************************************************)
(* Bounds of the model.                                                    *)
(***************************************************************************)
MaxLen == 3        \* longest input of escapeHtml in the pure runs
MaxContent == 3    \* most pieces a content of emojify is made of in the pure runs
MaxEmojis == 2     \* longest emoji collection in the pure runs
MaxComments == 2   \* longest collection of replies

Scripts == {"mastodon.js", "part_000"}

Absent == <<>>
Some(x) == <<x>>

\* JavaScript truthiness of a possibly-absent string: null and "" are falsy.
Truthy(m) == m # <<>> /\ m[1] # <<>>

Lower == {"a","b","c","d","e","f","g","h","i","j","k","l","m",
          "n","o","p","q","r","s","t","u","v","w","x","y","z"}
Upper == {"A","B","C","D","E","F","G","H","I","J","K","L","M",
          "N","O","P","Q","R","S","T","U","V","W","X","Y","Z"}
Digits == {"0","1","2","3","4","5","6","7","8","9"}
Punct == {"&", "<", ">", "\"", "'", ";", "#", ":", "/", ".", "-", "_", "$", "=", " "}

\* Every element of a string that is a character of data, not a template chunk.
Chars == Lower \cup Upper \cup Digits \cup Punct

\* The string operators below scan their argument by index.  TLC evaluates an
\* argument again each time the body of an operator uses it (it keeps no value
\* of it while it evaluates ENABLED), and a bound variable holds a value: so an
\* operator binds its argument once, as CHOOSE v \in {F(x) : x \in {arg}} : TRUE,
\* which is F(arg).

RECURSIVE FlattenFrom(_, _)
FlattenFrom(ss, i) == IF i > Len(ss) THEN <<>> ELSE ss[i] \o FlattenFrom(ss, i + 1)

\* Array.prototype.join('') of an array of strings.
Flatten(ss) == CHOOSE v \in {FlattenFrom(x, 1) : x \in {ss}} : TRUE

\* s contains t as a contiguous substring
Contains(s, t) ==
    \E i \in 1..(Len(s) - Len(t) + 1) : SubSeq(s, i, i + Len(t) - 1) = t

(***************************************************************************)
(* escapeHtml: five global single-character replacements, applied one      *)
(* after the other.  Identical in both copies of the script.               *)
(***************************************************************************)
RECURSIVE replaceCharFrom(_, _, _, _)
replaceCharFrom(s, i, c, r) ==
    IF i > Len(s) THEN <<>>
    ELSE (IF s[i] = c THEN r ELSE <<s[i]>>) \o replaceCharFrom(s, i + 1, c, r)

\* String.prototype.replace(/c/g, r) for a one-character pattern c
replaceChar(s, c, r) == CHOOSE v \in {replaceCharFrom(x, 1, c, r) : x \in {s}} : TRUE

EntAmp == <<"&","a","m","p",";">>
EntLt == <<"&","l","t",";">>
EntGt == <<"&","g","t",";">>
EntQuot == <<"&","q","u","o","t",";">>
EntApos == <<"&","#","0","3","9",";">>

\* mutant: the ampersand is replaced last, so the entities of the first four
\* replacements are escaped a second time
escapeHtml_ampLast(unsafe) ==
    replaceChar(
      replaceChar(
        replaceChar(
          replaceChar(
            replaceChar(unsafe, "<", EntLt),
            ">", EntGt),
          "\"", EntQuot),
        "'", EntApos),
      "&", EntAmp)

\* mutant: the apostrophe is not replaced
escapeHtml_noApos(unsafe) ==
    replaceChar(
      replaceChar(
        replaceChar(
          replaceChar(unsafe, "&", EntAmp),
          "<", EntLt),
        ">", EntGt),
      "\"", EntQuot)

escapeHtml(unsafe) ==
    replaceChar(
      replaceChar(
        replaceChar(
          replaceChar(
            replaceChar(unsafe, "&", EntAmp),
            "<", EntLt),
          ">", EntGt),
        "\"", EntQuot),
      "'", EntApos)

(***************************************************************************)
(* emojify.  new RegExp(`:${emoji.shortcode}:`, 'g') is built from the raw *)
(* shortcode in both copies; the shortcodes of the model hold no regular   *)
(* expression metacharacter, so the pattern matches literally.             *)
(* The replacement is a string, so String.prototype.replace expands $$ and *)
(* $& in it ($`, $' and $n do not occur in the inputs of the model).       *)
(***************************************************************************)
T_EmojiOpen == "<img src=\""
T_EmojiAlt == "\" alt=\""
T_EmojiClose == "\" class=\"emoji\" loading=\"lazy\" />"

RECURSIVE expandFrom(_, _, _)
expandFrom(repl, i, matched) ==
    IF i > Len(repl) THEN <<>>
    ELSE IF i < Len(repl) /\ repl[i] = "$" /\ repl[i + 1] = "$"
         THEN <<"$">> \o expandFrom(repl, i + 2, matched)
    ELSE IF i < Len(repl) /\ repl[i] = "$" /\ repl[i + 1] = "&"
         THEN matched \o expandFrom(repl, i + 2, matched)
    ELSE <<repl[i]>> \o expandFrom(repl, i + 1, matched)

\* GetSubstitution: the replacement text for one match
expandReplacement(repl, matched) ==
    CHOOSE v \in {expandFrom(x, 1, matched) : x \in {repl}} : TRUE

\* mutant: no g flag, only the first match is replaced
replaceAll_first(s, pat, repl) ==
    IF \E i \in 1..(Len(s) - Len(pat) + 1) : SubSeq(s, i, i + Len(pat) - 1) = pat
    THEN LET i == CHOOSE k \in 1..(Len(s) - Len(pat) + 1) :
                    /\ SubSeq(s, k, k + Len(pat) - 1) = pat
                    /\ \A j \in 1..(k - 1) : SubSeq(s, j, j + Len(pat) - 1) # pat
         IN  SubSeq(s, 1, i - 1) \o expandReplacement(repl, pat)
             \o SubSeq(s, i + Len(pat), Len(s))
    ELSE s

RECURSIVE replaceAllFrom(_, _, _, _)
\* sub is the text that replaces a match
replaceAllFrom(s, i, pat, sub) ==
    IF i > Len(s) THEN <<>>
    ELSE IF i + Len(pat) - 1 <= Len(s) /\ SubSeq(s, i, i + Len(pat) - 1) = pat
         THEN sub \o replaceAllFrom(s, i + Len(pat), pat, sub)
    ELSE <<s[i]>> \o replaceAllFrom(s, i + 1, pat, sub)

\* content.replace(regex, repl) with the g flag: every match, left to right,
\* the search resuming after the end of the previous match
replaceAll(s, pat, repl) ==
    CHOOSE v \in {replaceAllFrom(x, 1, p, sub) :
                     x \in {s}, p \in {pat}, sub \in {expandReplacement(repl, pat)}} : TRUE

shortcodeRegex(emoji) == <<":">> \o emoji.shortcode \o <<":">>

\* mastodon.js lines 23-28: one iteration of emojis.forEach
emojifyOne(content, emoji) ==
    LET emojiUrl == escapeHtml(emoji.url)
        shortcode == escapeHtml(emoji.shortcode)
    IN  replaceAll(content, shortcodeRegex(emoji),
                   <<T_EmojiOpen>> \o emojiUrl \o <<T_EmojiAlt>> \o shortcode
                       \o <<T_EmojiClose>>)

\* part_000 lines 23-26: one iteration of emojis.forEach
emojifyOne_p0(content, emoji) ==
    replaceAll(content, shortcodeRegex(emoji),
               <<T_EmojiOpen>> \o emoji.url \o <<T_EmojiAlt>> \o emoji.shortcode
                   \o <<T_EmojiClose>>)

RECURSIVE emojifyEach(_, _)
emojifyEach(content, emojis) ==
    IF emojis = <<>> THEN content
    ELSE emojifyEach(emojifyOne(content, Head(emojis)), Tail(emojis))

RECURSIVE emojifyEach_p0(_, _)
emojifyEach_p0(content, emojis) ==
    IF emojis = <<>> THEN content
    ELSE emojifyEach_p0(emojifyOne_p0(content, Head(emojis)), Tail(emojis))

\* emojis is Absent or Some(collection)
emojify(content, emojis) ==
    IF emojis = Absent \/ Len(emojis[1]) = 0 THEN content
    ELSE emojifyEach(content, emojis[1])

emojify_p0(content, emojis) ==
    IF emojis = Absent \/ Len(emojis[1]) = 0 THEN content
    ELSE emojifyEach_p0(content, emojis[1])

(***************************************************************************)
(* formatDate.  new Date(dateString) is an Invalid Date for a string that  *)
(* does not parse; toLocaleDateString returns "Invalid Date" for it before *)
(* it looks at the locale, and throws a RangeError for a language tag that *)
(* is not well formed.  Dates and language tags are atomic values.         *)
(***************************************************************************)
ParsableDates == {"2024-01-02T03:04:00Z"}
Lang_en == <<"e","n">>
Lang_de == <<"d","e">>
WellFormedLocales == {Lang_en, Lang_de}

formatDateThrows(dateString, lang) ==
    dateString \in ParsableDates /\ lang \notin WellFormedLocales

formatDate(dateString, lang) ==
    IF dateString \notin ParsableDates THEN <<"Invalid Date">>
    ELSE IF lang = Lang_de THEN <<"2. Jan. 2024, 03:04">>
    ELSE <<"Jan 2, 2024, 03:04 AM">>

(***************************************************************************)
(* renderComment.  A reply is                                              *)
(*   [account : Absent or Some([display_name, username, url, avatar]),     *)
(*    content, created_at, url, emojis : Absent or Some(collection),       *)
(*    media_attachments : collection of                                    *)
(*        [type, url, preview_url, mime_type, description]]                *)
(* with "" for a string field that is absent where the script tests it     *)
(* with || (display_name, mime_type, description).                         *)
(***************************************************************************)
T_AttachOpen == "<div class=\"mastodon-attachments\">"
T_ImgLink == "<a href=\""
T_ImgLinkImg == "\" target=\"_blank\" rel=\"noopener noreferrer\"> <img src=\""
T_ImgAlt == "\" alt=\""
T_ImgClose == "\" loading=\"lazy\" /> </a>"
T_Video == "<video controls preload=\"metadata\" poster=\""
T_VideoSource == "\"> <source src=\""
T_Audio == "<audio controls preload=\"metadata\"> <source src=\""
T_SourceType == "\" type=\""
T_VideoClose == "\"> </video>"
T_AudioClose == "\"> </audio>"
T_AttachClose == "</div>"

T_CommentOpen == "<div class=\"mastodon-comment\"> <div class=\"mastodon-comment-header\"> <img src=\""
T_AvatarAlt == "\" alt=\""
T_AvatarClose == "'s avatar\" class=\"mastodon-avatar\" loading=\"lazy\" /> <div class=\"mastodon-author\"> <a href=\""
T_AuthorName == "\" target=\"_blank\" rel=\"noopener noreferrer\" class=\"mastodon-author-name\"> "
T_AuthorLink == " </a> <a href=\""
T_AuthorHandle == "\" target=\"_blank\" rel=\"noopener noreferrer\" class=\"mastodon-author-handle\"> @"
T_DateLink == " </a> </div> <a href=\""
T_Date == "\" target=\"_blank\" rel=\"noopener noreferrer\" class=\"mastodon-comment-date\"> "
T_ContentOpen == " </a> </div> <div class=\"mastodon-comment-content\"> "
T_ContentClose == " </div> "
T_CommentClose == " </div> "

Str_Image == <<"I","m","a","g","e">>
Str_VideoMp4 == <<"v","i","d","e","o","/","m","p","4">>
Str_AudioMpeg == <<"a","u","d","i","o","/","m","p","e","g">>

\* a || b for strings
OrElse(a, b) == IF a # <<>> THEN a ELSE b

\* mastodon.js lines 48-64: one iteration of media_attachments.forEach
attachmentHtml(media) ==
    LET mediaUrl == escapeHtml(media.url)
        previewUrl == escapeHtml(media.preview_url)
        mimeType == escapeHtml(OrElse(media.mime_type, <<>>))
    IN  IF media.type = "image"
        THEN <<T_ImgLink>> \o mediaUrl \o <<T_ImgLinkImg>> \o previewUrl \o <<T_ImgAlt>>
             \o escapeHtml(OrElse(media.description, Str_Image)) \o <<T_ImgClose>>
        ELSE IF media.type = "video" \/ media.type = "gifv"
        THEN <<T_Video>> \o previewUrl \o <<T_VideoSource>> \o mediaUrl \o <<T_SourceType>>
             \o OrElse(mimeType, Str_VideoMp4) \o <<T_VideoClose>>
        ELSE IF media.type = "audio"
        THEN <<T_Audio>> \o mediaUrl \o <<T_SourceType>>
             \o OrElse(mimeType, Str_AudioMpeg) \o <<T_AudioClose>>
        ELSE <<>>

\* part_000 lines 45-57: one iteration of media_attachments.forEach
attachmentHtml_p0(media) ==
    IF media.type = "image"
    THEN <<T_ImgLink>> \o media.url \o <<T_ImgLinkImg>> \o media.preview_url \o <<T_ImgAlt>>
         \o escapeHtml(OrElse(media.description, Str_Image)) \o <<T_ImgClose>>
    ELSE IF media.type = "video" \/ media.type = "gifv"
    THEN <<T_Video>> \o media.preview_url \o <<T_VideoSource>> \o media.url \o <<T_SourceType>>
         \o OrElse(media.mime_type, Str_VideoMp4) \o <<T_VideoClose>>
    ELSE IF media.type = "audio"
    THEN <<T_Audio>> \o media.url \o <<T_SourceType>>
         \o OrElse(media.mime_type, Str_AudioMpeg) \o <<T_AudioClose>>
    ELSE <<>>

\* mastodon.js lines 44-67
attachmentsHtml(comment) ==
    IF Len(comment.media_attachments) > 0
    THEN <<T_AttachOpen>>
         \o Flatten([i \in 1..Len(comment.media_attachments) |->
                        attachmentHtml(comment.media_attachments[i])])
         \o <<T_AttachClose>>
    ELSE <<>>

\* part_000 lines 41-60
attachmentsHtml_p0(comment) ==
    IF Len(comment.media_attachments) > 0
    THEN <<T_AttachOpen>>
         \o Flatten([i \in 1..Len(comment.media_attachments) |->
                        attachmentHtml_p0(comment.media_attachments[i])])
         \o <<T_AttachClose>>
    ELSE <<>>

\* comment.account.display_name is a TypeError when the reply has no account;
\* formatDate may throw a RangeError
renderCommentThrows(comment, lang) ==
    \/ comment.account = Absent
    \/ formatDateThrows(comment.created_at, lang)

\* mastodon.js lines 34-91
renderComment(comment, lang) ==
    LET account == comment.account[1]
        displayName == escapeHtml(OrElse(account.display_name, account.username))
        username == escapeHtml(account.username)
        accountUrl == escapeHtml(account.url)
        avatarUrl == escapeHtml(account.avatar)
        content == emojify(comment.content, comment.emojis)
        timestamp == formatDate(comment.created_at, lang)
        commentUrl == escapeHtml(comment.url)
    IN  <<T_CommentOpen>> \o avatarUrl \o <<T_AvatarAlt>> \o displayName
        \o <<T_AvatarClose>> \o accountUrl \o <<T_AuthorName>> \o displayName
        \o <<T_AuthorLink>> \o accountUrl \o <<T_AuthorHandle>> \o username
        \o <<T_DateLink>> \o commentUrl \o <<T_Date>> \o timestamp
        \o <<T_ContentOpen>> \o content \o <<T_ContentClose>>
        \o attachmentsHtml(comment) \o <<T_CommentClose>>

\* part_000 lines 32-84
renderComment_p0(comment, lang) ==
    LET account == comment.account[1]
        displayName == escapeHtml(OrElse(account.display_name, account.username))
        username == escapeHtml(account.username)
        accountUrl == account.url
        avatarUrl == account.avatar
        content == emojify_p0(comment.content, comment.emojis)
        timestamp == formatDate(comment.created_at, lang)
        commentUrl == comment.url
    IN  <<T_CommentOpen>> \o avatarUrl \o <<T_AvatarAlt>> \o displayName
        \o <<T_AvatarClose>> \o accountUrl \o <<T_AuthorName>> \o displayName
        \o <<T_AuthorLink>> \o accountUrl \o <<T_AuthorHandle>> \o username
        \o <<T_DateLink>> \o commentUrl \o <<T_Date>> \o timestamp
        \o <<T_ContentOpen>> \o content \o <<T_ContentClose>>
        \o attachmentsHtml_p0(comment) \o <<T_CommentClose>>

(***************************************************************************)
(* renderComments.  comments is Absent or Some(collection); the function   *)
(* is the same text in both copies and calls the copy's own renderComment. *)
(***************************************************************************)
T_NoComments == "<p class=\"mastodon-no-comments\">No comments yet. Be the first to comment on Mastodon!</p>"

renderCommentsThrows(comments, lang) ==
    /\ comments # Absent
    /\ \E i \in 1..Len(comments[1]) : renderCommentThrows(comments[1][i], lang)

RECURSIVE mapRenderComment(_, _)
\* comments.map(comment => renderComment(comment, lang))
mapRenderComment(comments, lang) ==
    IF comments = <<>> THEN <<>>
    ELSE <<renderComment(Head(comments), lang)>> \o mapRenderComment(Tail(comments), lang)

RECURSIVE mapRenderComment_p0(_, _)
mapRenderComment_p0(comments, lang) ==
    IF comments = <<>> THEN <<>>
    ELSE <<renderComment_p0(Head(comments), lang)>>
         \o mapRenderComment_p0(Tail(comments), lang)

\* mutant: the fragments are joined newest first
renderComments_reversed(comments, lang) ==
    IF comments = Absent \/ Len(comments[1]) = 0 THEN <<T_NoComments>>
    ELSE LET n == Len(comments[1])
         IN  Flatten([i \in 1..n |-> renderComment(comments[1][n + 1 - i], lang)])

\* mastodon.js lines 93-99
renderComments(comments, lang) ==
    IF comments = Absent \/ Len(comments[1]) = 0 THEN <<T_NoComments>>
    ELSE Flatten(mapRenderComment(comments[1], lang))

\* part_000 lines 86-92
renderComments_p0(comments, lang) ==
    IF comments = Absent \/ Len(comments[1]) = 0 THEN <<T_NoComments>>
    ELSE Flatten(mapRenderComment_p0(comments[1], lang))

(***************************************************************************)
(* loadMastodonComments and initMastodon: the page and the one run.        *)
(***************************************************************************)
T_Original == "(markup of the page inside .comments)"
T_SkeletonOpen == "<div class=\"mastodon-comments\"> <div class=\"mastodon-comments-header\"> <h3>Comments</h3> "
T_PostLink == "<a href=\""
T_PostLinkClose == "\" target=\"_blank\" rel=\"noopener noreferrer\" class=\"mastodon-comment-link\">Comment on Mastodon</a>"
T_ListOpen == " </div> <div id=\"mastodon-comments-list\">"
T_ListClose == "</div> </div>"
T_Loading == "<p class=\"mastodon-loading\">Loading comments...</p>"
T_Error == "<p class=\"mastodon-error\">Failed to load comments. Please try again later.</p>"

\* /^[a-z0-9.-]+$/i.test(host)
validHost(host) ==
    /\ Len(host) >= 1
    /\ \A i \in 1..Len(host) : host[i] \in Lower \cup Upper \cup Digits \cup {".", "-"}

\* /^\d+$/.test(postId)
validPostId(postId) ==
    /\ Len(postId) >= 1
    /\ \A i \in 1..Len(postId) : postId[i] \in Digits

\* encodeURIComponent leaves A-Z a-z 0-9 - _ . ! ~ * ' ( ) alone and writes the
\* UTF-8 bytes of any other character as %XX
encodeChar(c) ==
    IF c \in Lower \cup Upper \cup Digits \cup {"-", "_", ".", "'"} THEN <<c>>
    ELSE CASE c = "/" -> <<"%","2","F">>
           [] c = ":" -> <<"%","3","A">>
           [] c = "&" -> <<"%","2","6">>
           [] c = "<" -> <<"%","3","C">>
           [] c = ">" -> <<"%","3","E">>
           [] c = "\"" -> <<"%","2","2">>
           [] c = ";" -> <<"%","3","B">>
           [] c = "#" -> <<"%","2","3">>
           [] c = "$" -> <<"%","2","4">>
           [] c = "=" -> <<"%","3","D">>
           [] c = " " -> <<"%","2","0">>

encodeURIComponent(str) == Flatten([i \in 1..Len(str) |-> encodeChar(str[i])])

\* mastodon.js line 115
requestUrl(host, postId) ==
    <<"https://">> \o encodeURIComponent(host) \o <<"/api/v1/statuses/">>
        \o encodeURIComponent(postId) \o <<"/context">>

\* part_000 line 99
requestUrl_p0(host, postId) ==
    <<"https://">> \o host \o <<"/api/v1/statuses/">> \o postId \o <<"/context">>

\* mastodon.js lines 148-159
skeleton(postUrl) ==
    LET escapedPostUrl == IF Truthy(postUrl) THEN escapeHtml(postUrl[1]) ELSE <<>>
    IN  <<T_SkeletonOpen>>
        \o (IF escapedPostUrl # <<>>
            THEN <<T_PostLink>> \o escapedPostUrl \o <<T_PostLinkClose>>
            ELSE <<>>)
        \o <<T_ListOpen, T_ListClose>>

\* part_000 lines 132-142
skeleton_p0(postUrl) ==
    <<T_SkeletonOpen>>
    \o (IF Truthy(postUrl)
        THEN <<T_PostLink>> \o postUrl[1] \o <<T_PostLinkClose>>
        ELSE <<>>)
    \o <<T_ListOpen, T_ListClose>>

Str_example_social == <<"e","x","a","m","p","l","e",".","s","o","c","i","a","l">>
Str_example_com_evil == <<"e","x","a","m","p","l","e",".","c","o","m","/","e","v","i","l">>
Str_Mixed_host == <<"M","y","-","1",".","S","o","c","i","a","l">>
Str_12345 == <<"1","2","3","4","5">>
Str_12a == <<"1","2","a">>

HostAttrs == {Absent, Some(<<>>), Some(Str_example_social), Some(Str_example_com_evil),
              Some(Str_Mixed_host)}
PostIdAttrs == {Absent, Some(<<>>), Some(Str_12345), Some(Str_12a)}
LangAttrs == {Absent, Some(Lang_de), Some(<<"d","e","_">>)}
PostUrlAttrs == {Absent, Some(<<"u","/","1">>), Some(<<"\"",">","<","&","'">>)}

NoAttrs == [host |-> Absent, postId |-> Absent, lang |-> Absent, postUrl |-> Absent]
NoCall == [host |-> <<>>, postId |-> <<>>, lang |-> <<>>]

Statuses == {200, 404, 500}

(***************************************************************************)
(* Replies and response bodies the remote server may send.                 *)
(***************************************************************************)
ReplyPlain ==
    [account |-> Some([display_name |-> <<"A","l">>, username |-> <<"a","l">>,
                       url |-> <<"u">>, avatar |-> <<"v">>]),
     content |-> <<"h","i">>, created_at |-> "2024-01-02T03:04:00Z", url |-> <<"p">>,
     emojis |-> Absent, media_attachments |-> <<>>]

ReplyEmoji ==
    [account |-> Some([display_name |-> <<>>, username |-> <<"b","o">>,
                       url |-> <<"w">>, avatar |-> <<"x">>]),
     content |-> <<":","a",":"," ",":","a",":">>, created_at |-> "2024-01-02T03:04:00Z",
     url |-> <<"q">>,
     emojis |-> Some(<<[shortcode |-> <<"a">>, url |-> <<"e">>]>>),
     media_attachments |-> <<[type |-> "unknown", url |-> <<"m">>, preview_url |-> <<"n">>,
                              mime_type |-> <<>>, description |-> <<>>]>>]

ReplyHostile ==
    [account |-> Some([display_name |-> <<"<","i",">">>, username |-> <<"a","&","b">>,
                       url |-> <<"\"","x">>, avatar |-> <<"'","y">>]),
     content |-> <<"<","p",">",":","e","<",":">>, created_at |-> "not a date",
     url |-> <<"c","'">>,
     emojis |-> Some(<<[shortcode |-> <<"e","<">>, url |-> <<"e","\"">>]>>),
     media_attachments |->
        <<[type |-> "image", url |-> <<"m","<">>, preview_url |-> <<"p",">">>,
           mime_type |-> <<>>, description |-> <<"d","'">>],
          [type |-> "gifv", url |-> <<"m","&">>, preview_url |-> <<"p","\"">>,
           mime_type |-> <<>>, description |-> <<>>],
          [type |-> "audio", url |-> <<"m","'">>, preview_url |-> <<>>,
           mime_type |-> <<"a","\"">>, description |-> <<>>]>>]

ReplyNoAccount ==
    [account |-> Absent,
     content |-> <<"h","o">>, created_at |-> "2024-01-02T03:04:00Z", url |-> <<"r">>,
     emojis |-> Absent, media_attachments |-> <<>>]

Replies == {ReplyPlain, ReplyEmoji, ReplyHostile, ReplyNoAccount}

ReplyLists == UNION {[1..n -> Replies] : n \in 0..MaxComments}

\* what response.json() may resolve with: the JSON value null (kind "null"), a
\* JSON value without a descendants field, or an object with a descendants
\* array (both kind "object": data.descendants is read the same way on them)
Bodies ==
    {[kind |-> "null", descendants |-> Absent],
     [kind |-> "object", descendants |-> Absent]}
    \cup {[kind |-> "object", descendants |-> Some(l)] : l \in ReplyLists}

WidgetInit ==
    /\ script \in Scripts
    /\ hasDiv \in BOOLEAN
    /\ attrs \in IF hasDiv
                 THEN [host : HostAttrs, postId : PostIdAttrs, lang : LangAttrs,
                       postUrl : PostUrlAttrs]
                 ELSE {NoAttrs}
    /\ commentsDiv = <<T_Original>>
    /\ list = <<>>
    /\ pc = "start"
    /\ call = NoCall
    /\ requests = <<>>
    /\ response = Absent
    /\ data = Absent
    /\ error = Absent
    /\ log = <<>>
    /\ listWrites = 0

NoRet == [done |-> FALSE, threw |-> FALSE, value |-> <<>>]

Init ==
    /\ WidgetInit
    /\ fn = "none"
    /\ arg = <<>>
    /\ ret = NoRet

\* mutant: the skeleton is injected before the configuration is checked
initMastodon_injectFirst ==
    /\ pc = "start"
    /\ IF ~hasDiv
       THEN /\ pc' = "done"
            /\ UNCHANGED <<commentsDiv, list, call, log>>
       ELSE /\ commentsDiv' = skeleton(attrs.postUrl)
            /\ list' = <<T_Loading>>
            /\ IF ~Truthy(attrs.host) \/ ~Truthy(attrs.postId)
               THEN /\ log' = Append(log, <<"Mastodon host or post ID not configured">>)
                    /\ pc' = "done"
                    /\ UNCHANGED call
               ELSE /\ call' = [host |-> attrs.host[1], postId |-> attrs.postId[1],
                                lang |-> IF Truthy(attrs.lang) THEN attrs.lang[1] ELSE Lang_en]
                    /\ pc' = "load"
                    /\ UNCHANGED log
    /\ UNCHANGED <<script, hasDiv, attrs, requests, response, data, error, listWrites>>
    /\ UNCHANGED pureVars

\* initMastodon up to the call of loadMastodonComments
\* (mastodon.js lines 133-161, part_000 lines 117-144)
initMastodon ==
    /\ pc = "start"
    /\ IF ~hasDiv
       THEN /\ pc' = "done"
            /\ UNCHANGED <<commentsDiv, list, call, log>>
       ELSE IF ~Truthy(attrs.host) \/ ~Truthy(attrs.postId)
       THEN /\ log' = Append(log, <<"Mastodon host or post ID not configured">>)
            /\ pc' = "done"
            /\ UNCHANGED <<commentsDiv, list, call>>
       ELSE /\ commentsDiv' = IF script = "mastodon.js" THEN skeleton(attrs.postUrl)
                                                        ELSE skeleton_p0(attrs.postUrl)
            /\ list' = <<T_Loading>>
            /\ call' = [host |-> attrs.host[1], postId |-> attrs.postId[1],
                        lang |-> IF Truthy(attrs.lang) THEN attrs.lang[1] ELSE Lang_en]
            /\ pc' = "load"
            /\ UNCHANGED log
    /\ UNCHANGED <<script, hasDiv, attrs, requests, response, data, error, listWrites>>
    /\ UNCHANGED pureVars

\* loadMastodonComments from its call to the first await
\* (mastodon.js lines 101-115, part_000 lines 94-99)
loadMastodonComments ==
    /\ pc = "load"
    /\ IF script = "mastodon.js" /\ ~validHost(call.host)
       THEN /\ error' = Some("Error: Invalid Mastodon host")
            /\ pc' = "catch"
            /\ UNCHANGED requests
       ELSE IF script = "mastodon.js" /\ ~validPostId(call.postId)
       THEN /\ error' = Some("Error: Invalid Mastodon post ID")
            /\ pc' = "catch"
            /\ UNCHANGED requests
       ELSE /\ requests' = Append(requests,
                              IF script = "mastodon.js"
                              THEN requestUrl(call.host, call.postId)
                              ELSE requestUrl_p0(call.host, call.postId))
            /\ pc' = "await_fetch"
            /\ UNCHANGED error
    /\ UNCHANGED <<script, hasDiv, attrs, commentsDiv, list, call, response, data, log,
                   listWrites>>
    /\ UNCHANGED pureVars

\* the fetch promise rejects (network or transport failure)
fetchRejects ==
    /\ pc = "await_fetch"
    /\ error' = Some("TypeError: Failed to fetch")
    /\ pc' = "catch"
    /\ UNCHANGED <<script, hasDiv, attrs, commentsDiv, list, call, requests, response, data,
                   log, listWrites>>
    /\ UNCHANGED pureVars

\* the fetch promise resolves; mastodon.js lines 117-121, part_000 lines 101-105
fetchResolves ==
    /\ pc = "await_fetch"
    /\ \E status \in Statuses :
          /\ response' = Some([status |-> status, ok |-> status \in 200..299])
          /\ IF status \in 200..299
             THEN /\ pc' = "await_json"
                  /\ UNCHANGED error
             ELSE /\ error' = Some("Error: HTTP error! status")
                  /\ pc' = "catch"
    /\ UNCHANGED <<script, hasDiv, attrs, commentsDiv, list, call, requests, data, log,
                   listWrites>>
    /\ UNCHANGED pureVars

\* the response.json() promise rejects (the body is not JSON)
jsonRejects ==
    /\ pc = "await_json"
    /\ error' = Some("SyntaxError: Unexpected token")
    /\ pc' = "catch"
    /\ UNCHANGED <<script, hasDiv, attrs, commentsDiv, list, call, requests, response, data,
                   log, listWrites>>
    /\ UNCHANGED pureVars

\* the response.json() promise resolves
jsonResolves ==
    /\ pc = "await_json"
    /\ \E body \in Bodies : data' = Some(body)
    /\ pc' = "render"
    /\ UNCHANGED <<script, hasDiv, attrs, commentsDiv, list, call, requests, response, error,
                   log, listWrites>>
    /\ UNCHANGED pureVars

\* data.descendants || []
descendantsOrEmpty(body) ==
    IF body.descendants # Absent THEN body.descendants ELSE Some(<<>>)

\* mutant: data.descendants is used as it is, so an absent field throws
renderStep_noDefault ==
    /\ pc = "render"
    /\ IF data[1].kind = "null" \/ data[1].descendants = Absent
       THEN /\ error' = Some("TypeError: Cannot read properties")
            /\ pc' = "catch"
            /\ UNCHANGED <<list, listWrites>>
       ELSE IF renderCommentsThrows(data[1].descendants, call.lang)
       THEN /\ error' = Some("TypeError or RangeError in renderComment")
            /\ pc' = "catch"
            /\ UNCHANGED <<list, listWrites>>
       ELSE /\ list' = IF script = "mastodon.js"
                       THEN renderComments(data[1].descendants, call.lang)
                       ELSE renderComments_p0(data[1].descendants, call.lang)
            /\ listWrites' = listWrites + 1
            /\ pc' = "done"
            /\ UNCHANGED error
    /\ UNCHANGED <<script, hasDiv, attrs, commentsDiv, call, requests, response, data, log>>
    /\ UNCHANGED pureVars

\* mutant: after the list is rendered the run falls through into the catch block
renderStep_fallThrough ==
    /\ pc = "render"
    /\ IF data[1].kind = "null"
       THEN /\ error' = Some("TypeError: Cannot read properties of null")
            /\ pc' = "catch"
            /\ UNCHANGED <<list, listWrites>>
       ELSE IF renderCommentsThrows(descendantsOrEmpty(data[1]), call.lang)
       THEN /\ error' = Some("TypeError or RangeError in renderComment")
            /\ pc' = "catch"
            /\ UNCHANGED <<list, listWrites>>
       ELSE /\ list' = IF script = "mastodon.js"
                       THEN renderComments(descendantsOrEmpty(data[1]), call.lang)
                       ELSE renderComments_p0(descendantsOrEmpty(data[1]), call.lang)
            /\ listWrites' = listWrites + 1
            /\ error' = Some("fell through")
            /\ pc' = "catch"
    /\ UNCHANGED <<script, hasDiv, attrs, commentsDiv, call, requests, response, data, log>>
    /\ UNCHANGED pureVars

\* mastodon.js lines 122-125, part_000 lines 106-109
renderStep ==
    /\ pc = "render"
    /\ IF data[1].kind = "null"
       THEN /\ error' = Some("TypeError: Cannot read properties of null")
            /\ pc' = "catch"
            /\ UNCHANGED <<list, listWrites>>
       ELSE IF renderCommentsThrows(descendantsOrEmpty(data[1]), call.lang)
       THEN /\ error' = Some("TypeError or RangeError in renderComment")
            /\ pc' = "catch"
            /\ UNCHANGED <<list, listWrites>>
       ELSE /\ list' = IF script = "mastodon.js"
                       THEN renderComments(descendantsOrEmpty(data[1]), call.lang)
                       ELSE renderComments_p0(descendantsOrEmpty(data[1]), call.lang)
            /\ listWrites' = listWrites + 1
            /\ pc' = "done"
            /\ UNCHANGED error
    /\ UNCHANGED <<script, hasDiv, attrs, commentsDiv, call, requests, response, data, log>>
    /\ UNCHANGED pureVars

\* mutant: the catch block starts the load again, once
catchBlock_retry ==
    /\ pc = "catch"
    /\ log' = Append(log, <<"Error loading Mastodon comments:", error[1]>>)
    /\ list' = <<T_Error>>
    /\ listWrites' = listWrites + 1
    /\ pc' = IF Len(log) = 0 THEN "load" ELSE "done"
    /\ UNCHANGED <<script, hasDiv, attrs, commentsDiv, call, requests, response, data, error>>
    /\ UNCHANGED pureVars

\* mastodon.js lines 127-130, part_000 lines 111-114
catchBlock ==
    /\ pc = "catch"
    /\ log' = Append(log, <<"Error loading Mastodon comments:", error[1]>>)
    /\ list' = <<T_Error>>
    /\ listWrites' = listWrites + 1
    /\ pc' = "done"
    /\ UNCHANGED <<script, hasDiv, attrs, commentsDiv, call, requests, response, data, error>>
    /\ UNCHANGED pureVars

Next ==
    \/ initMastodon
    \/ loadMastodonComments
    \/ fetchRejects
    \/ fetchResolves
    \/ jsonRejects
    \/ jsonResolves
    \/ renderStep
    \/ catchBlock

Spec == Init /\ [][Next]_vars

\* The event loop runs every continuation that is ready, and the claim about
\* leaving the loading state assumes that the two promises settle.
FairSpec == Spec /\ WF_vars(Next)

(***************************************************************************)
(* Runs of the pure functions: the arguments are drawn by PureInit and one *)
(* action applies the function.                                            *)
(***************************************************************************)
SeqsUpTo(S, n) == UNION {[1..k -> S] : k \in 0..n}

EscapeAlphabet == {"&", "<", ">", "\"", "'", "a", ";"}
EscapeInputs == SeqsUpTo(EscapeAlphabet, MaxLen)

ContentPieces == {<<":","a",":">>, <<":","b",":">>, <<"a",":">>}
Contents == {Flatten(ps) : ps \in SeqsUpTo(ContentPieces, MaxContent)}

EmojiPairs ==
    {[shortcode |-> <<"a">>, url |-> <<"u">>],
     [shortcode |-> <<"b">>, url |-> <<"v">>],
     [shortcode |-> <<"a">>, url |-> <<"x",":","b",":">>],
     [shortcode |-> <<"b">>, url |-> <<"$","&">>]}
EmojiCollections == {Absent} \cup {Some(l) : l \in SeqsUpTo(EmojiPairs, MaxEmojis)}

PureLangs == {Lang_en, Lang_de, <<"d","e","_">>}

PureInit ==
    /\ script \in Scripts
    /\ hasDiv = FALSE
    /\ attrs = NoAttrs
    /\ commentsDiv = <<T_Original>>
    /\ list = <<>>
    /\ pc = "done"
    /\ call = NoCall
    /\ requests = <<>>
    /\ response = Absent
    /\ data = Absent
    /\ error = Absent
    /\ log = <<>>
    /\ listWrites = 0
    /\ ret = NoRet
    /\ \/ /\ fn = "escapeHtml"
          /\ arg \in [unsafe : EscapeInputs]
       \/ /\ fn = "emojify"
          /\ arg \in [content : Contents, emojis : EmojiCollections]
       \/ /\ fn = "renderComments"
          /\ arg \in [comments : {Absent} \cup {Some(l) : l \in ReplyLists},
                      lang : PureLangs]

Returned(v) == [done |-> TRUE, threw |-> FALSE, value |-> v]
Threw == [done |-> TRUE, threw |-> TRUE, value |-> <<>>]

callEscapeHtml ==
    /\ fn = "escapeHtml"
    /\ ~ret.done
    /\ ret' = Returned(escapeHtml(arg.unsafe))
    /\ UNCHANGED <<script, fn, arg>>
    /\ UNCHANGED widgetVars

callEmojify ==
    /\ fn = "emojify"
    /\ ~ret.done
    /\ ret' = Returned(IF script = "mastodon.js"
                       THEN emojify(arg.content, arg.emojis)
                       ELSE emojify_p0(arg.content, arg.emojis))
    /\ UNCHANGED <<script, fn, arg>>
    /\ UNCHANGED widgetVars

callRenderComments ==
    /\ fn = "renderComments"
    /\ ~ret.done
    /\ ret' = IF renderCommentsThrows(arg.comments, arg.lang) THEN Threw
              ELSE Returned(IF script = "mastodon.js"
                            THEN renderComments(arg.comments, arg.lang)
                            ELSE renderComments_p0(arg.comments, arg.lang))
    /\ UNCHANGED <<script, fn, arg>>
    /\ UNCHANGED widgetVars

PureNext ==
    \/ callEscapeHtml
    \/ callEmojify
    \/ callRenderComments

SpecPure == PureInit /\ [][PureNext]_vars

(***************************************************************************)
(* Properties of the pure functions, checked under SpecPure.               *)
(***************************************************************************)
RawSpecials == {"<", ">", "\"", "'"}
Entities == {EntAmp, EntLt, EntGt, EntQuot, EntApos}

\* the & at position i of s is the first character of an entity
StartsEntity(s, i) ==
    \E e \in Entities : i + Len(e) - 1 <= Len(s) /\ SubSeq(s, i, i + Len(e) - 1) = e

\* the entity of one character, in a single pass over the input
EntityOf(c) ==
    CASE c = "&" -> EntAmp
      [] c = "<" -> EntLt
      [] c = ">" -> EntGt
      [] c = "\"" -> EntQuot
      [] c = "'" -> EntApos
      [] OTHER -> <<c>>

\* the length of the single-pass escape of the first k characters of s
RECURSIVE EscapedLen(_, _)
EscapedLen(s, k) == IF k = 0 THEN 0 ELSE EscapedLen(s, k - 1) + Len(EntityOf(s[k]))

\* out is the input with each character replaced once by its entity
SinglePass(in, out) ==
    /\ Len(out) = EscapedLen(in, Len(in))
    /\ \A k \in 1..Len(in) :
          SubSeq(out, EscapedLen(in, k - 1) + 1, EscapedLen(in, k)) = EntityOf(in[k])

\* C10: for every input string, the empty one included, the output of
\* escapeHtml holds none of < > " ', every & of the output is the first
\* character of one of the five entities, and the output is the input with
\* each character escaped exactly once (no entity is escaped a second time).
C10_EscapeHtmlSanitizes ==
    (fn = "escapeHtml" /\ ret.done) =>
        /\ ~ret.threw
        /\ \A i \in 1..Len(ret.value) :
              /\ ret.value[i] \notin RawSpecials
              /\ ret.value[i] = "&" => StartsEntity(ret.value, i)
        /\ SinglePass(arg.unsafe, ret.value)

\* an input with an ampersand and a later special character has been escaped
C10_Witness ==
    /\ fn = "escapeHtml"
    /\ ret.done
    /\ arg.unsafe = <<"&", "<", "'">>
    /\ ret.value = EntAmp \o EntLt \o EntApos

\* the collection of an emojis argument, [] when it is absent
Listed(emojis) == IF emojis = Absent THEN <<>> ELSE emojis[1]

\* no emoji url holds a $ or the text :shortcode: of a listed shortcode
UrlsInert(emojis) ==
    \A i, j \in 1..Len(emojis) :
        /\ ~Contains(emojis[i].url, shortcodeRegex(emojis[j]))
        /\ \A k \in 1..Len(emojis[i].url) : emojis[i].url[k] # "$"

\* the collection without the pairs whose shortcode an earlier pair has
RECURSIVE Dedup(_)
Dedup(emojis) ==
    IF emojis = <<>> THEN <<>>
    ELSE LET front == SubSeq(emojis, 1, Len(emojis) - 1)
             last == emojis[Len(emojis)]
         IN  IF \E i \in 1..Len(front) : front[i].shortcode = last.shortcode
             THEN Dedup(front)
             ELSE Append(Dedup(front), last)

\* the image elements of html put back as :shortcode: (the alt text of an
\* image is its shortcode, which holds no character escapeHtml changes)
RECURSIVE unEmojify(_)
unEmojify(html) ==
    IF html = <<>> THEN <<>>
    ELSE IF Head(html) = T_EmojiOpen
    THEN LET alt == CHOOSE i \in 1..Len(html) :
                        html[i] = T_EmojiAlt /\ \A j \in 1..(i - 1) : html[j] # T_EmojiAlt
             close == CHOOSE i \in 1..Len(html) :
                        html[i] = T_EmojiClose /\ \A j \in 1..(i - 1) : html[j] # T_EmojiClose
         IN  <<":">> \o SubSeq(html, alt + 1, close - 1) \o <<":">>
             \o unEmojify(SubSeq(html, close + 1, Len(html)))
    ELSE <<Head(html)>> \o unEmojify(Tail(html))

\* every image element of html is the one of the first listed pair with its
\* shortcode: src is that pair's url, alt its shortcode
ImagesFromPairs(html, emojis) ==
    \A i \in 1..Len(html) :
        html[i] = T_EmojiOpen =>
            \E e \in 1..Len(emojis) :
                LET img == <<T_EmojiOpen>> \o emojis[e].url \o <<T_EmojiAlt>>
                           \o emojis[e].shortcode \o <<T_EmojiClose>>
                IN  /\ i + Len(img) - 1 <= Len(html)
                    /\ SubSeq(html, i, i + Len(img) - 1) = img
                    /\ \A d \in 1..(e - 1) : emojis[d].shortcode # emojis[e].shortcode

EmojifyOf(content, emojis) ==
    IF script = "mastodon.js" THEN emojify(content, emojis) ELSE emojify_p0(content, emojis)

\* C9: for every content and every collection of pairs, after emojify no
\* :shortcode: of a listed shortcode is left in the output, a shortcode listed
\* twice gives the result of the collection without the duplicate, and an
\* empty or absent collection returns the content unchanged.
C9_NoShortcodeLeft ==
    (fn = "emojify" /\ ret.done) =>
        /\ \A i \in 1..Len(Listed(arg.emojis)) :
              ~Contains(ret.value, shortcodeRegex(Listed(arg.emojis)[i]))
        /\ ret.value = EmojifyOf(arg.content, Some(Dedup(Listed(arg.emojis))))
        /\ Listed(arg.emojis) = <<>> => ret.value = arg.content

\* What emojify does keep of C9: when no listed url holds a $ or the text
\* :shortcode: of a listed shortcode, it replaces every occurrence of every listed
\* :shortcode: by the image element of the first pair listed with that
\* shortcode (putting the images back as :shortcode: gives the content), no
\* listed :shortcode: is left, and a shortcode listed twice gives the result
\* of the collection without the duplicate; an empty or absent collection
\* returns the content unchanged whatever the urls are.
EmojifyReplacesAllWhenInert ==
    (fn = "emojify" /\ ret.done) =>
        /\ ~ret.threw
        /\ Listed(arg.emojis) = <<>> => ret.value = arg.content
        /\ UrlsInert(Listed(arg.emojis)) =>
              /\ \A i \in 1..Len(Listed(arg.emojis)) :
                    ~Contains(ret.value, shortcodeRegex(Listed(arg.emojis)[i]))
              /\ unEmojify(ret.value) = arg.content
              /\ ImagesFromPairs(ret.value, Listed(arg.emojis))
              /\ ret.value = EmojifyOf(arg.content, Some(Dedup(Listed(arg.emojis))))

\* a content with two occurrences of a shortcode that is listed twice
C9_InertWitness ==
    /\ fn = "emojify"
    /\ ret.done
    /\ arg.content = <<":","a",":",":","a",":">>
    /\ Len(Listed(arg.emojis)) = 2
    /\ Listed(arg.emojis)[1].shortcode = <<"a">>
    /\ Listed(arg.emojis)[2].shortcode = <<"a">>
    /\ UrlsInert(Listed(arg.emojis))
    /\ Len(ret.value) = 10

RenderCommentOf(comment, lang) ==
    IF script = "mastodon.js" THEN renderComment(comment, lang)
    ELSE renderComment_p0(comment, lang)

\* the fragments of the first k replies, one after the other
RECURSIVE FragmentsUpTo(_, _, _)
FragmentsUpTo(comments, lang, k) ==
    IF k = 0 THEN <<>>
    ELSE FragmentsUpTo(comments, lang, k - 1) \o RenderCommentOf(comments[k], lang)

Occurrences(html, chunk) == Cardinality({i \in 1..Len(html) : html[i] = chunk})

\* C8: renderComments returns exactly the "no comments yet" message for an
\* empty or absent collection, and for a non-empty collection the fragments
\* renderComment gives for its replies, one per reply, in the given order.
C8_RenderCommentsInOrder ==
    (fn = "renderComments" /\ ret.done /\ ~ret.threw) =>
        IF Listed(arg.comments) = <<>>
        THEN ret.value = <<T_NoComments>>
        ELSE /\ ret.value = FragmentsUpTo(Listed(arg.comments), arg.lang,
                                          Len(Listed(arg.comments)))
             /\ Occurrences(ret.value, T_CommentOpen) = Len(Listed(arg.comments))
             /\ Occurrences(ret.value, T_NoComments) = 0

\* two different replies have been rendered
C8_Witness ==
    /\ fn = "renderComments"
    /\ ret.done
    /\ ~ret.threw
    /\ Listed(arg.comments) = <<ReplyHostile, ReplyPlain>>
    /\ Occurrences(ret.value, T_CommentOpen) = 2

\* the empty-state message has been returned for an absent collection
C8_WitnessAbsent ==
    /\ fn = "renderComments"
    /\ ret.done
    /\ arg.comments = Absent
    /\ ret.value = <<T_NoComments>>

(***************************************************************************)
(* Properties of the widget, checked under Spec (C4 under FairSpec).       *)
(***************************************************************************)
\* the skeleton has been injected into the container
Injected == commentsDiv # <<T_Original>>

\* the state of the widget as the page shows it
WidgetState ==
    IF ~Injected THEN "idle"
    ELSE IF list = <<T_Loading>> THEN "loading"
    ELSE IF list = <<T_Error>> THEN "errored"
    ELSE "rendered"

Settled == WidgetState \in {"rendered", "errored"}

\* position i of html is inside the reply body: the nearest template chunk
\* before it opens the body or closes an emoji image of the body
InContentBody(html, i) ==
    \E j \in 1..(i - 1) :
        /\ html[j] \in {T_ContentOpen, T_EmojiClose}
        /\ \A k \in (j + 1)..(i - 1) : html[k] \in Chars

\* every character of data outside the reply body is escaped: none of < > " '
\* and no & that is not the start of an entity
FieldsSanitized(html) ==
    \A i \in 1..Len(html) :
        (html[i] \in Chars /\ ~InContentBody(html, i)) =>
            /\ html[i] \notin RawSpecials
            /\ html[i] = "&" => StartsEntity(html, i)

\* C1: in every HTML string the widget produces (skeleton header, reply
\* fragments, emoji images) every URL and plain-text field of the reply or of
\* the page configuration has been escaped; only the reply body is exempt.
C1_AllFieldsSanitized ==
    /\ FieldsSanitized(commentsDiv)
    /\ FieldsSanitized(list)

\* C1 for the copy static/js/mastodon.js alone
C1_MastodonJs == script = "mastodon.js" => C1_AllFieldsSanitized

\* the run is past the validation of loadMastodonComments
PastValidation == pc \in {"await_fetch", "await_json", "render", "catch", "done"} /\ Injected

\* C2: for a host or post identifier that does not match its pattern no
\* request is issued and the widget ends errored; for a host and post
\* identifier that match, the request is issued.
C2_InvalidNeverFetched ==
    PastValidation =>
        IF validHost(call.host) /\ validPostId(call.postId)
        THEN Len(requests) = 1
        ELSE /\ requests = <<>>
             /\ pc = "done" => WidgetState = "errored"

\* C2 for the copy static/js/mastodon.js alone
C2_MastodonJs == script = "mastodon.js" => C2_InvalidNeverFetched

\* one of the fetch-stage failures the claim lists has happened
FetchStageFailure ==
    \/ PastValidation /\ (~validHost(call.host) \/ ~validPostId(call.postId))
    \/ /\ error # Absent
       /\ error[1] \in {"Error: Invalid Mastodon host", "Error: Invalid Mastodon post ID",
                        "TypeError: Failed to fetch", "Error: HTTP error! status",
                        "SyntaxError: Unexpected token"}

\* C3: every fetch-stage failure (invalid host or post id, transport
\* rejection, non-success status, unparsable body) ends with the error logged
\* once and the loading placeholder replaced by the one fixed error message.
C3_FailuresConverge ==
    (pc = "done" /\ FetchStageFailure) =>
        /\ list = <<T_Error>>
        /\ listWrites = 1
        /\ Len(log) = 1
        /\ log[1][1] = "Error loading Mastodon comments:"

\* C3 for the copy static/js/mastodon.js alone
C3_MastodonJs == script = "mastodon.js" => C3_FailuresConverge

C4_Order ==
    /\ Len(requests) > 0 => Injected
    /\ listWrites <= 1
    /\ listWrites = 1 <=> Settled
    /\ (pc = "done" /\ Injected) => Settled
    /\ WidgetState = "loading" => pc \in {"load", "await_fetch", "await_json", "render", "catch"}

C4_Step ==
    /\ requests' # requests => (WidgetState = "loading" /\ WidgetState' = "loading")
    /\ Settled => (list' = list /\ commentsDiv' = commentsDiv /\ listWrites' = listWrites)
    /\ WidgetState' # WidgetState =>
          \/ WidgetState = "idle" /\ WidgetState' = "loading"
          \/ WidgetState = "loading" /\ WidgetState' \in {"rendered", "errored"}

\* C4: idle -> loading -> settled.  The skeleton with the placeholder is in
\* the page when the fetch is started, the list container is written exactly
\* once after that, a settled widget never changes again, and a loading
\* widget eventually settles when the promises settle.
C4_StateMachine ==
    /\ []C4_Order
    /\ [][C4_Step]_vars
    /\ (WidgetState = "loading") ~> Settled

\* a run has gone through loading and has rendered replies
C4_Witness ==
    /\ pc = "done"
    /\ WidgetState = "rendered"
    /\ listWrites = 1
    /\ Len(requests) = 1
    /\ list # <<T_NoComments>>

\* C5: over one run of initMastodon at most one request is issued, whatever
\* the outcome of the fetch.
C5_AtMostOneRequest == Len(requests) <= 1

\* a run whose request failed with a bad status has ended with one request
C5_Witness ==
    /\ pc = "done"
    /\ response # Absent
    /\ ~response[1].ok
    /\ WidgetState = "errored"
    /\ Len(requests) = 1

ConfigMissing == hasDiv /\ (~Truthy(attrs.host) \/ ~Truthy(attrs.postId))

\* C6: when the container exists and its host or post-identifier attribute
\* is missing or empty, initMastodon logs an error and stops: no request, no
\* skeleton, the container as it was, the widget never loading or settled.
C6_MissingConfigAborts ==
    ConfigMissing =>
        /\ requests = <<>>
        /\ commentsDiv = <<T_Original>>
        /\ list = <<>>
        /\ listWrites = 0
        /\ WidgetState = "idle"
        /\ pc \in {"start", "done"}
        /\ log = IF pc = "done" THEN << <<"Mastodon host or post ID not configured">> >>
                 ELSE <<>>

\* initMastodon has run on a container whose host attribute is empty
C6_Witness ==
    /\ hasDiv
    /\ attrs.host = Some(<<>>)
    /\ Truthy(attrs.postId)
    /\ pc = "done"
    /\ Len(log) = 1

\* what the claim expects in the list container for a parsed body
ExpectedList(body, lang) ==
    IF Listed(body.descendants) = <<>> THEN <<T_NoComments>>
    ELSE FragmentsUpTo(Listed(body.descendants), lang, Len(Listed(body.descendants)))

====
